---- MODULE Spec2Model ----
(***************************************************************************)
(* Chunked procedural terrain store of jmc (src/game_map.rs).              *)
(*                                                                         *)
(* GameMap keeps a nested map  center_x -> center_y -> center_z -> chunk,  *)
(* a chunk being a map  z mod chunk_size -> Vec<Tile>.  get_tile(x, y, z)  *)
(* computes the chunk bounds of the point, generates the chunk on a miss   *)
(* and returns the tile by value.                                          *)
(*                                                                         *)
(* Scaling.  A chunk of the program has 64^3 tiles and its words are 32    *)
(* bits wide; neither fits an explicit-state check.  The model keeps the   *)
(* program's planet, level thickness and f32 mantissa, and scales two      *)
(* numbers: chunk_size (2 instead of 64) and the width of the unsigned     *)
(* word (UBits instead of 32, still wider than every coordinate of the     *)
(* planet).  The pure coordinate functions are also exercised with the     *)
(* program's chunk size 64.                                                *)
(*                                                                         *)
(* The generator (generate_map_chunk with the two color ramps of           *)
(* src/color_scheme.rs) is modelled both as the chunk it returns and        *)
(* statement by statement.  The camera (src/camera.rs) is modelled with     *)
(* its f32 arithmetic computed exactly, and draw_map (src/main.rs) by the   *)
(* box of coordinates it hands to get_tile.                                 *)
(***************************************************************************)
EXTENDS Integers, Sequences, FiniteSets, TLC

VARIABLES
    map,              \* GameMap.map of the store
    gen_count,        \* ghost: chunk key -> number of generate_map_chunk runs
    visited,          \* ghost: the chunks (cell / chunk_size per axis) queried
    ret,              \* ghost: the last get_tile call and what it returned
    pin,              \* ghost: one earlier get_tile call, remembered
    mapB,             \* GameMap.map of a second store with the same parameters
    retB,             \* ghost: the last get_tile call on the second store
    random_seed,      \* GameMap.random_seed
    overflow_checks,  \* build profile: TRUE panics on overflow, FALSE wraps
    probe,            \* ghost: last application of a pure function
    chunk_gen,        \* one run of generate_map_chunk, statement by statement
    camera,           \* Game.camera
    cam_log           \* ghost: the last camera operation, and what draw_map asked for

vars == <<map, gen_count, visited, ret, pin, mapB, retB, random_seed, overflow_checks, probe, chunk_gen, camera, cam_log>>

----------------------------------------------------------------------------
(* Bounds of the model *)

\* width of the unsigned word in bits (u32 in the program)
UBits == 25

\* edge length of a chunk (64 in GameMap::new)
chunk_size == 2

\* largest argument given to the pure coordinate functions
MaxN == 200

\* most camera operations in one run
MaxOps == 3

\* largest noise sample given to the classification, in units of 1 / Unit
MaxSample == 300

\* how far below the lower end of a ramp the samples given to it go
Margin == 30

----------------------------------------------------------------------------
(* World parameters, GameMap::new *)

planet_circumference == 20000000

planet_crust_thickness == 32000

surface_level == 1000

level_thickness == 30

max_chuncks_x == planet_circumference \div chunk_size

max_chuncks_y == planet_circumference \div chunk_size

max_chuncks_z == (planet_crust_thickness \div level_thickness) \div chunk_size

\* random_seed is oorandom::Rand32::new(10).rand_u32(): one fixed value,
\* drawn once at construction; the model lets it be any of these.
Seeds == {1}

----------------------------------------------------------------------------
(* Unsigned arithmetic of the word: the wrapped value and whether it wrapped *)

Modulus == 2 ^ UBits

AddU(a, b) == [v |-> (a + b) % Modulus, of |-> a + b >= Modulus]

SubU(a, b) == [v |-> (a - b) % Modulus, of |-> a < b]

MulU(a, b) == [v |-> (a * b) % Modulus, of |-> a * b >= Modulus]

----------------------------------------------------------------------------
(* `x as f32`: round to nearest, ties to even, with a 24 bit significand *)

F32Mantissa == 24

RECURSIVE Ulp(_, _)
Ulp(n, u) == IF n < 2 ^ F32Mantissa * u THEN u ELSE Ulp(n, 2 * u)

AsF32(n) ==
    LET u == Ulp(n, 1)
        q == n \div u
        r == n % u
    IN  IF 2 * r > u \/ (2 * r = u /\ q % 2 = 1) THEN (q + 1) * u ELSE q * u

----------------------------------------------------------------------------
(* f32 arithmetic of the camera.  An f32 value is kept exactly as            *)
(* i + f / One with i an integer and 0 <= f < One; every value the camera   *)
(* computes from zoom factors between 1/16 and 4 is a multiple of 1 / One.   *)

\* binary digits kept after the point
FracBits == 28

One == 2 ^ FracBits

FVal(i, f) == [i |-> i, f |-> f]

\* i + f / One with f brought back into 0 .. One - 1
FNorm(i, f) == [i |-> i + (f \div One), f |-> f % One]

FromInt(n) == [i |-> n, f |-> 0]

\* `n as f32` of a u32
FromU32(n) == [i |-> AsF32(n), f |-> 0]

\* `v as u32`: the fraction is dropped and a negative value saturates to 0
ToU32(v) == IF v.i < 0 THEN 0 ELSE v.i

FNeg(v) == IF v.f = 0 THEN [i |-> 0 - v.i, f |-> 0] ELSE [i |-> 0 - v.i - 1, f |-> One - v.f]

FIsNeg(v) == v.i < 0

FLess(a, b) == a.i < b.i \/ (a.i = b.i /\ a.f < b.f)

FLeq(a, b) == a.i < b.i \/ (a.i = b.i /\ a.f <= b.f)

\* the least power of two above n, from h on
RECURSIVE PowAbove(_, _)
PowAbove(n, h) == IF n < h THEN h ELSE PowAbove(n, 2 * h)

\* i + f / One rounded to a multiple of g / One (g a power of two up to
\* One), to nearest and ties to the even multiple; sticky: the exact value
\* is a little above i + f / One
RoundFrac(i, f, g, sticky) ==
    LET q   == f \div g
        r   == f % g
        odd == (i * (One \div g) + q) % 2 = 1
        up  == 2 * r > g \/ (2 * r = g /\ (sticky \/ odd))
    IN  FNorm(i, IF up THEN (q + 1) * g ELSE q * g)

\* an integer rounded to a multiple of u (a power of two from 2 on), to
\* nearest and ties to the even multiple
RoundInt(n, u, sticky) ==
    LET q  == n \div u
        r  == n % u
        up == 2 * r > u \/ (2 * r = u /\ (sticky \/ q % 2 = 1))
    IN  IF up THEN (q + 1) * u ELSE q * u

\* a magnitude (v.i >= 0) rounded to the nearest f32: 24 significant bits
RoundMag(v, sticky) ==
    IF v.i >= 2 ^ F32Mantissa
        THEN [i |-> RoundInt(v.i, Ulp(v.i, 1), sticky \/ v.f > 0), f |-> 0]
    ELSE IF v.i >= 1
        THEN RoundFrac(v.i, v.f, (2 ^ (FracBits - F32Mantissa)) * PowAbove(v.i, 1), sticky)
    ELSE RoundFrac(0, v.f, Ulp(v.f, 1), sticky)

\* the exact value v, a little more when sticky, rounded to f32
FRound(v, sticky) ==
    IF FIsNeg(v) THEN FNeg(RoundMag(FNeg(v), sticky)) ELSE RoundMag(v, sticky)

\* a + b and a - b in f32
FAdd(a, b) == FRound(FNorm(a.i + b.i, a.f + b.f), FALSE)

FSub(a, b) == FAdd(a, FNeg(b))

\* v / 2.0: exact
FHalf(v) == FNorm(v.i \div 2, ((v.i % 2) * One + v.f) \div 2)

\* n binary digits of r / d for 0 <= r < d: the digits q and the remainder
RECURSIVE LongDiv(_, _, _, _)
LongDiv(r, d, n, q) ==
    IF n = 0 THEN [q |-> q, r |-> r]
    ELSE IF 2 * r >= d THEN LongDiv(2 * r - d, d, n - 1, 2 * q + 1)
    ELSE LongDiv(2 * r, d, n - 1, 2 * q)

\* n / z in f32, for an integer 0 < n and a positive z with n < z * One
FDiv(n, z) ==
    LET d  == z.i * One + z.f
        hi == LongDiv(n, d, FracBits, 0)
        lo == LongDiv(hi.r, d, FracBits, 0)
    IN  FRound([i |-> hi.q, f |-> lo.q], lo.r > 0)

----------------------------------------------------------------------------
(* Color classification, src/color_scheme.rs.  A sample is a rational with  *)
(* denominator Unit, so that every band boundary used by the generator     *)
(* (k * 0.5/7 and 0.4 + k * 0.6/8) and the threshold 0.6 are integers.      *)

Unit == 7 * 8 * 5

\* the ramp with the band commented out in the source put back: the sixth
\* test repeats Stone4 and Stone5 is never reached
StoneColorRepeated(val, min, max) ==
    LET step == (max - min) \div 7
    IN  IF min <= val /\ val < min + step THEN "Void"
        ELSE IF min + step <= val /\ val < min + 2 * step THEN "Stone1"
        ELSE IF min + 2 * step <= val /\ val < min + 3 * step THEN "Stone2"
        ELSE IF min + 3 * step <= val /\ val < min + 4 * step THEN "Stone3"
        ELSE IF min + 4 * step <= val /\ val < min + 5 * step THEN "Stone4"
        ELSE IF min + 5 * step <= val /\ val < min + 6 * step THEN "Stone4"
        ELSE "Stone6"

get_stone_color(val, min, max) ==
    LET step == (max - min) \div 7
    IN  IF min <= val /\ val < min + step THEN "Void"
        ELSE IF min + step <= val /\ val < min + 2 * step THEN "Stone1"
        ELSE IF min + 2 * step <= val /\ val < min + 3 * step THEN "Stone2"
        ELSE IF min + 3 * step <= val /\ val < min + 4 * step THEN "Stone3"
        ELSE IF min + 4 * step <= val /\ val < min + 5 * step THEN "Stone4"
        ELSE IF min + 5 * step <= val /\ val < min + 6 * step THEN "Stone5"
        ELSE "Stone6"

\* the floor ramp with no band skipped: band 1 is Stone5, band 2 Stone4, ...
FloorColorRegular(val, min, max) ==
    LET step == (max - min) \div 8
    IN  IF min <= val /\ val < min + step THEN "Stone6"
        ELSE IF min + step <= val /\ val < min + 2 * step THEN "Stone5"
        ELSE IF min + 2 * step <= val /\ val < min + 3 * step THEN "Stone4"
        ELSE IF min + 3 * step <= val /\ val < min + 4 * step THEN "Stone3"
        ELSE IF min + 4 * step <= val /\ val < min + 5 * step THEN "Stone2"
        ELSE "Void"

get_floor_color(val, min, max) ==
    LET step == (max - min) \div 8
    IN  IF min <= val /\ val < min + step THEN "Stone6"
        ELSE IF min + 2 * step <= val /\ val < min + 3 * step THEN "Stone5"
        ELSE IF min + 3 * step <= val /\ val < min + 4 * step THEN "Stone4"
        ELSE IF min + 4 * step <= val /\ val < min + 5 * step THEN "Stone3"
        ELSE IF min + 5 * step <= val /\ val < min + 6 * step THEN "Stone2"
        ELSE "Void"

----------------------------------------------------------------------------
(* Terrain generator, GameMap::generate_map_chunk *)

\* noise_gen.get([x, y, z_depth]).abs(): the Billow field of the noise crate,
\* a fixed function of the point and the seed.  The model uses a fixed
\* function whose samples fall in every band of both ramps.
NoiseVal(x, y, z_depth, seed) ==
    (((x % 29) * 7 + (y % 29) * 13 + (z_depth % 29) * 3 + seed * 11) % 29) * 10

\* the threshold compared strictly: a sample of exactly 0.6 stays rock
ClassifiedStrict(val) ==
    IF val > (6 * Unit) \div 10
        THEN [glyph |-> ".", color |-> get_floor_color(val, (4 * Unit) \div 10, Unit)]
    ELSE [glyph |-> "#", color |-> get_stone_color(val, 0, (5 * Unit) \div 10)]

\* lines 127-138: glyph and color of the tile after the threshold test
Classified(val) ==
    IF val >= (6 * Unit) \div 10
        THEN [glyph |-> ".", color |-> get_floor_color(val, (4 * Unit) \div 10, Unit)]
    ELSE [glyph |-> "#", color |-> get_stone_color(val, 0, (5 * Unit) \div 10)]

\* the override left out
OverriddenNever(t) == t

\* the override testing the color alone
OverriddenAnyVoid(t) == IF t.color = "Void" THEN [glyph |-> "~", color |-> "Blue"] ELSE t

\* lines 140-143: rock of color Void becomes liquid ("~" stands for the
\* glyph U+2248) of color Blue
Overridden(t) ==
    IF t.color = "Void" /\ t.glyph = "#" THEN [glyph |-> "~", color |-> "Blue"] ELSE t

\* lines 127-144: the tile pushed for the cell (x, y, z) whose sample is val
TileOf(x, y, z, val) ==
    [pos   |-> <<AsF32(x), AsF32(y)>>,
     depth |-> z,
     glyph |-> Overridden(Classified(val)).glyph,
     color |-> Overridden(Classified(val)).color,
     val   |-> val]

\* the body of the innermost loop: the tile pushed for the cell (x, y, z)
MakeTile(x, y, z, z_depth, seed) == TileOf(x, y, z, NoiseVal(x, y, z_depth, seed))

\* a range that leaves out its first element
RangeSkipFirst(lo, hi) == {v \in (lo + 1) .. (hi - 1) : TRUE}

\* a Rust range lo..hi: empty when hi <= lo
Range(lo, hi) == {v \in lo .. (hi - 1) : TRUE}

\* z_map of one depth: y outer, x inner, pushed in that order
MakeSlice(x_min, x_max, y_min, y_max, z, z_depth, seed) ==
    LET w == IF x_max > x_min THEN x_max - x_min ELSE 0
        h == IF y_max > y_min THEN y_max - y_min ELSE 0
    IN  [i \in 1 .. (w * h) |->
            MakeTile(x_min + ((i - 1) % w), y_min + ((i - 1) \div w), z, z_depth, seed)]

\* The loop runs z from z_max - 1 down to z_min and inserts each slice under
\* z % chunk_size, so of two depths with the same key the lower one, inserted
\* last, stays.  of: some z * level_thickness exceeded the word.
generate_map_chunk(x_min, x_max, y_min, y_max, z_min, z_max, size, thickness, seed) ==
    LET zs      == Range(z_min, z_max)
        keys    == {z % size : z \in zs}
        last(k) == CHOOSE z \in zs : z % size = k /\ \A q \in zs : q % size = k => z <= q
    IN  [chunk |-> [k \in keys |->
                      MakeSlice(x_min, x_max, y_min, y_max, last(k),
                                MulU(last(k), thickness).v, seed)],
         of    |-> \E z \in zs : MulU(z, thickness).of]

----------------------------------------------------------------------------
(* Coordinate mapper *)

\* round_to_boundries rounding n down instead of n - 1: a multiple of m
\* becomes the lower bound of its interval
RoundFromFloor(n, m) ==
    LET min == (n \div m) * m
        s   == AddU(min, m)
    IN  [min |-> min, max |-> s.v, of |-> s.of]

\* GameMap::round_to_boundries; of: n + m, (n + m) - 1 or max - m left the word
round_to_boundries(n, m) ==
    IF n = 0 THEN [min |-> 0, max |-> m, of |-> FALSE]
    ELSE LET s   == AddU(n, m)
             t   == SubU(s.v, 1)
             max == (t.v \div m) * m
             d   == SubU(max, m)
         IN  [min |-> d.v, max |-> max, of |-> s.of \/ t.of \/ d.of]

\* get_chunck_boundries with the coordinates decremented
BoundriesDecremented(x, y, z, size) ==
    LET cx == SubU(x, 1)
        cy == SubU(y, 1)
        cz == SubU(z, 1)
        bx == round_to_boundries(cx.v, size)
        by == round_to_boundries(cy.v, size)
        bz == round_to_boundries(cz.v, size)
    IN  [x_min |-> bx.min, x_max |-> bx.max,
         y_min |-> by.min, y_max |-> by.max,
         z_min |-> bz.min, z_max |-> bz.max,
         of    |-> cx.of \/ cy.of \/ cz.of \/ bx.of \/ by.of \/ bz.of]

\* get_chunck_boundries without the increment of the coordinates
BoundriesOfRaw(x, y, z, size) ==
    LET bx == round_to_boundries(x, size)
        by == round_to_boundries(y, size)
        bz == round_to_boundries(z, size)
    IN  [x_min |-> bx.min, x_max |-> bx.max,
         y_min |-> by.min, y_max |-> by.max,
         z_min |-> bz.min, z_max |-> bz.max,
         of    |-> bx.of \/ by.of \/ bz.of]

\* GameMap::get_chunck_boundries
get_chunck_boundries(x, y, z, size) ==
    LET cx == AddU(x, 1)
        cy == AddU(y, 1)
        cz == AddU(z, 1)
        bx == round_to_boundries(cx.v, size)
        by == round_to_boundries(cy.v, size)
        bz == round_to_boundries(cz.v, size)
    IN  [x_min |-> bx.min, x_max |-> bx.max,
         y_min |-> by.min, y_max |-> by.max,
         z_min |-> bz.min, z_max |-> bz.max,
         of    |-> cx.of \/ cy.of \/ cz.of \/ bx.of \/ by.of \/ bz.of]

\* calculate_center adding the whole size: the far corner, not the center
CenterAtMax(min, size) == AddU(min, size)

\* the closure calculate_center of get_tile
calculate_center(min, size) == AddU(min, size \div 2)

----------------------------------------------------------------------------
(* Camera, src/camera.rs, as Game::new builds it.  A Rectangle is its       *)
(* position (x, y) and its size (w, h), four f32 values.                     *)

camera_width == 60

camera_height == 30

initial_pos_x == (max_chuncks_x * chunk_size) \div 2

initial_pos_y == (max_chuncks_y * chunk_size) \div 2

initial_pos_z == 32

\* zoom_interval: 0.1 as f32, 13421773 * 2^-27
zoom_interval == FVal(0, 13421773 * 2 ^ (FracBits - 27))

\* the literal 0.2 of zoom_out as f32, 13421773 * 2^-26
ZoomFloor == FVal(0, 13421773 * 2 ^ (FracBits - 26))

Rect(x, y, w, h) == [x |-> x, y |-> y, w |-> w, h |-> h]

\* Camera::new with the arguments of Game::new
NewCamera ==
    [z_position  |-> initial_pos_z,
     ref_camera  |-> Rect(FromU32(initial_pos_x), FromU32(initial_pos_y),
                          FromInt(camera_width), FromInt(camera_height)),
     viewport    |-> Rect(FromU32(initial_pos_x), FromU32(initial_pos_y),
                          FromInt(camera_width), FromInt(camera_height)),
     max_x       |-> max_chuncks_x * chunk_size - camera_width,
     max_y       |-> max_chuncks_y * chunk_size - camera_height,
     max_z       |-> max_chuncks_z * chunk_size,
     zoom_factor |-> FromInt(1)]

\* Rectangle::center on one axis: pos + size / 2
Center(pos, size) == FAdd(pos, FHalf(size))

\* Camera::rescale: the reference size divided by the zoom factor, centered
\* on the center of ref_camera
rescale(cam) ==
    LET scaled_width  == FDiv(cam.ref_camera.w.i, cam.zoom_factor)
        scaled_height == FDiv(cam.ref_camera.h.i, cam.zoom_factor)
        center_x      == Center(cam.ref_camera.x, cam.ref_camera.w)
        center_y      == Center(cam.ref_camera.y, cam.ref_camera.h)
    IN  [cam EXCEPT !.viewport = Rect(FSub(center_x, FHalf(scaled_width)),
                                      FSub(center_y, FHalf(scaled_height)),
                                      scaled_width, scaled_height)]

\* ref_camera.translate((dx, dy)) followed by rescale
Translated(cam, dx, dy) ==
    rescale([cam EXCEPT !.ref_camera.x = FAdd(cam.ref_camera.x, dx),
                        !.ref_camera.y = FAdd(cam.ref_camera.y, dy)])

move_left(cam) ==
    LET delta == FNeg(FDiv(1, cam.zoom_factor))
    IN  IF ~FIsNeg(FAdd(cam.viewport.x, delta)) THEN Translated(cam, delta, FromInt(0))
        ELSE cam

move_right(cam) ==
    LET delta == FDiv(1, cam.zoom_factor)
    IN  IF FLess(FAdd(cam.viewport.x, delta), FromU32(cam.max_x))
            THEN Translated(cam, delta, FromInt(0))
        ELSE cam

move_up(cam) ==
    LET delta == FNeg(FDiv(1, cam.zoom_factor))
    IN  IF ~FIsNeg(FAdd(cam.viewport.y, delta)) THEN Translated(cam, FromInt(0), delta)
        ELSE cam

move_down(cam) ==
    LET delta == FDiv(1, cam.zoom_factor)
    IN  IF FLess(FAdd(cam.viewport.y, delta), FromU32(cam.max_y))
            THEN Translated(cam, FromInt(0), delta)
        ELSE cam

elevate(cam) ==
    IF cam.z_position > 0 THEN [cam EXCEPT !.z_position = cam.z_position - 1] ELSE cam

\* lower without its test
LowerUnguarded(cam) == [cam EXCEPT !.z_position = cam.z_position + 1]

lower(cam) ==
    IF cam.z_position < cam.max_z THEN [cam EXCEPT !.z_position = cam.z_position + 1]
    ELSE cam

\* go_to(x, y, z): x and y are f32 values, z a u32
go_to(cam, x, y, z) ==
    IF FLeq(x, FromU32(cam.max_x)) /\ FLeq(y, FromU32(cam.max_y)) /\ z <= cam.max_z
        THEN [cam EXCEPT !.ref_camera.x = x, !.ref_camera.y = y, !.z_position = z]
    ELSE cam

zoom_in(cam) == rescale([cam EXCEPT !.zoom_factor = FAdd(cam.zoom_factor, zoom_interval)])

zoom_out(cam) ==
    IF FLess(ZoomFloor, cam.zoom_factor)
        THEN rescale([cam EXCEPT !.zoom_factor = FSub(cam.zoom_factor, zoom_interval)])
    ELSE cam

\* Game::draw_map: the box of coordinates handed to get_tile, x from x_lo to
\* x_hi - 1, y from y_lo to y_hi - 1, all at depth z
draw_map(cam) ==
    [drawn |-> TRUE,
     x_lo  |-> ToU32(cam.viewport.x),
     x_hi  |-> AddU(ToU32(cam.viewport.x), ToU32(cam.viewport.w)).v,
     y_lo  |-> ToU32(cam.viewport.y),
     y_hi  |-> AddU(ToU32(cam.viewport.y), ToU32(cam.viewport.h)).v,
     z     |-> cam.z_position]

----------------------------------------------------------------------------
(* Chunk store, GameMap::get_tile *)

\* HashMap::insert
Put(f, k, v) == [q \in (DOMAIN f) \cup {k} |-> IF q = k THEN v ELSE f[q]]

\* HashMap::new / with_capacity: no entries
EmptyMap == <<>>

NoTile == [pos |-> <<0, 0>>, depth |-> 0, glyph |-> "none", color |-> "none", val |-> 0]

NoBounds == [x_min |-> 0, x_max |-> 0, y_min |-> 0, y_max |-> 0, z_min |-> 0, z_max |-> 0]

\* the six bounds of a chunk
BoundsOf(b) ==
    [x_min |-> b.x_min, x_max |-> b.x_max, y_min |-> b.y_min,
     y_max |-> b.y_max, z_min |-> b.z_min, z_max |-> b.z_max]

\* The result of one call q = (x, y, z): the store as the call leaves it, the
\* tile returned, whether generate_map_chunk ran, whether some arithmetic
\* left the word, and the chunk key and bounds the call computed.
Returned(m, q, key, b, gen, of, tile) ==
    [map |-> m, status |-> "ok", x |-> q.x, y |-> q.y, z |-> q.z, tile |-> tile,
     generated |-> gen, overflow |-> of, key |-> key, bounds |-> b]

\* a call that panicked: nothing is returned
Panicked(m, q, key, b, gen, of) ==
    [map |-> m, status |-> "panic", x |-> q.x, y |-> q.y, z |-> q.z, tile |-> NoTile,
     generated |-> gen, overflow |-> of, key |-> key, bounds |-> b]

\* contains_key never finding the key: the level is created anew on every call
HasKeyNever(f, k) == FALSE

\* HashMap::contains_key on the x and y levels
HasKey(f, k) == k \in DOMAIN f

\* the miss test finding no chunk ever: every call generates
ChunkMissingAlways(y_map, center_z) == TRUE

\* the miss test looking under another key than the insertion uses
ChunkMissingOtherKey(y_map, center_z) == (center_z + 1) \notin DOMAIN y_map

\* the miss test on the z level: no chunk under center_z
ChunkMissing(y_map, center_z) == center_z \notin DOMAIN y_map

\* the centers of y and z computed from x_min
ChunkKeyFromX(b, size) ==
    LET cx == calculate_center(b.x_min, size)
    IN  [key |-> <<cx.v, cx.v, cx.v>>, of |-> cx.of]

\* the center of every axis computed without its minimum
ChunkKeyNoMin(b, size) ==
    LET c == calculate_center(0, size)
    IN  [key |-> <<c.v, c.v, c.v>>, of |-> c.of]

\* the three centers computed from the bounds
ChunkKey(b, size) ==
    LET cx == calculate_center(b.x_min, size)
        cy == calculate_center(b.y_min, size)
        cz == calculate_center(b.z_min, size)
    IN  [key |-> <<cx.v, cy.v, cz.v>>, of |-> cx.of \/ cy.of \/ cz.of]

\* i = chunk_x + chunk_y * chunk_size
LocalIndex(chunk_x, chunk_y, size) ==
    LET mi == MulU(chunk_y, size)
        ai == AddU(chunk_x, mi.v)
    IN  [v |-> ai.v, of |-> mi.of \/ ai.of]

\* lines 60-69: the x level and the y level, created empty when absent
InsertLevels(m, key) ==
    LET x_map == IF HasKey(m, key[1]) THEN m[key[1]] ELSE EmptyMap
    IN  IF HasKey(x_map, key[2]) THEN Put(m, key[1], x_map)
        ELSE Put(m, key[1], Put(x_map, key[2], EmptyMap))

\* line 73: y_map.insert(center_z, chunk)
InsertChunk(m, key, chunk) ==
    Put(m, key[1], Put(m[key[1]], key[2], Put(m[key[1]][key[2]], key[3], chunk)))

\* lines 82-93: the slice of chunk_z and the tile at index i of it; a missing
\* slice (unwrap of None) and an index past the slice panic
Fetch(m, q, key, b, gen, of, li) ==
    IF (q.z % chunk_size) \notin DOMAIN m[key[1]][key[2]][key[3]]
        THEN Panicked(m, q, key, b, gen, of)
    ELSE IF q.checked /\ li.of
        THEN Panicked(m, q, key, b, gen, TRUE)
    ELSE IF li.v >= Len(m[key[1]][key[2]][key[3]][q.z % chunk_size])
        THEN Panicked(m, q, key, b, gen, of \/ li.of)
    ELSE Returned(m, q, key, b, gen, of \/ li.of,
                  m[key[1]][key[2]][key[3]][q.z % chunk_size][li.v + 1])

\* lines 73-80: the generated chunk g is inserted; an overflow of
\* z * level_thickness panics inside generate_map_chunk, after the levels
\* were created
Generate(m, q, key, b, of, g) ==
    IF q.checked /\ g.of THEN Panicked(m, q, key, b, TRUE, TRUE)
    ELSE Fetch(InsertChunk(m, key, g.chunk), q, key, b, TRUE, of \/ g.of,
               LocalIndex(q.x % chunk_size, q.y % chunk_size, chunk_size))

\* lines 72-93: the chunk is generated on a miss, then the tile is fetched
Resolve(m, q, key, b, of) ==
    IF ChunkMissing(m[key[1]][key[2]], key[3])
        THEN Generate(m, q, key, BoundsOf(b), of,
                      generate_map_chunk(b.x_min, b.x_max, b.y_min, b.y_max,
                                         b.z_min, b.z_max, chunk_size,
                                         level_thickness, q.seed))
    ELSE Fetch(m, q, key, BoundsOf(b), FALSE, of,
               LocalIndex(q.x % chunk_size, q.y % chunk_size, chunk_size))

\* lines 53-93, with the bounds b and the centers ck: in a build that checks
\* overflow a wrapped bound or center has panicked before the store is touched
Keyed(m, q, b, ck) ==
    IF q.checked /\ (b.of \/ ck.of) THEN Panicked(m, q, <<0, 0, 0>>, NoBounds, FALSE, TRUE)
    ELSE Resolve(InsertLevels(m, ck.key), q, ck.key, b, b.of \/ ck.of)

\* lines 53-93, with the bounds b
Bounded(m, q, b) == Keyed(m, q, b, ChunkKey(b, chunk_size))

\* One call get_tile(x, y, z) on the store m.  checked: the build panics on
\* arithmetic overflow; otherwise the arithmetic wraps and the call goes on.
get_tile(m, x, y, z, seed, checked) ==
    Bounded(m, [x |-> x, y |-> y, z |-> z, seed |-> seed, checked |-> checked],
            get_chunck_boundries(x, y, z, chunk_size))

----------------------------------------------------------------------------
(* The coordinates the model queries *)

\* first chunk index on x whose cells are not all exactly representable in f32
HighChunkX == (2 ^ F32Mantissa) \div chunk_size

\* chunk indices (cell / chunk_size per axis) of the queried chunks: the
\* origin chunk, its neighbour along each axis, and one far chunk on x
SampleChunks ==
    {<<0, 0, 0>>, <<1, 0, 0>>, <<0, 1, 0>>, <<0, 0, 1>>, <<HighChunkX, 0, 0>>}

\* the cells of the chunks that lie on a chunk boundary on every axis
CornersOf(chunks) ==
    {<<c[1] * chunk_size + dx, c[2] * chunk_size + dy, c[3] * chunk_size + dz>> :
        c \in chunks, dx \in {0, chunk_size - 1},
        dy \in {0, chunk_size - 1}, dz \in {0, chunk_size - 1}}

InWorld(x, y, z) ==
    /\ x < max_chuncks_x * chunk_size
    /\ y < max_chuncks_y * chunk_size
    /\ z < max_chuncks_z * chunk_size

\* cells of the origin chunk along each axis and along its diagonal
AxisCells ==
    UNION {{<<d, 0, 0>>, <<0, d, 0>>, <<0, 0, d>>, <<d, d, d>>} : d \in 0 .. (chunk_size - 1)}

\* the queried cells, all inside the world range: the corner cells of the
\* sample chunks and the axis and diagonal cells of the origin chunk
Coords ==
    {c \in AxisCells \cup CornersOf(SampleChunks) : InWorld(c[1], c[2], c[3])}

\* a few cells: two of the origin chunk and the first cell of its neighbour
\* along each axis
FewCoords ==
    {<<0, 0, 0>>, <<chunk_size - 1, 0, 0>>, <<chunk_size, 0, 0>>,
     <<0, chunk_size, 0>>, <<0, 0, chunk_size>>}

\* the cells asked of the two stores: two of the origin chunk and the first
\* cell of its neighbours on x and on y
PairCoords ==
    {<<0, 0, 0>>, <<chunk_size - 1, 0, 0>>, <<chunk_size, 0, 0>>, <<0, chunk_size, 0>>}

\* the chunk of a cell: its index on each axis
ChunkOf(x, y, z) == <<x \div chunk_size, y \div chunk_size, z \div chunk_size>>

\* a depth inside the word whose z * level_thickness leaves it
DeepZ == (Modulus \div level_thickness) + 1

\* cells over the whole unsigned range: the origin, the top chunk of the
\* word on each axis, the cell below the top chunk, and a deep cell
WideCoords ==
    {<<0, 0, 0>>, <<Modulus - 1, 0, 0>>, <<Modulus - 2, 0, 0>>,
     <<Modulus - chunk_size - 1, 0, 0>>, <<0, Modulus - 1, 0>>,
     <<0, 0, DeepZ>>, <<0, 0, Modulus - 1>>}

\* chunk sizes given to the pure coordinate functions (64 is GameMap::new's)
ProbeSizes == {1, 2, 3, 7, 64}

----------------------------------------------------------------------------
(* State machine *)

NoCall ==
    [status |-> "none", x |-> 0, y |-> 0, z |-> 0, tile |-> NoTile,
     generated |-> FALSE, overflow |-> FALSE, key |-> <<0, 0, 0>>, bounds |-> NoBounds]

NoPin == [call |-> NoCall, fresh |-> FALSE]

NoProbe ==
    [op |-> "none", x |-> 0, y |-> 0, z |-> 0, m |-> 1, res |-> NoBounds,
     key |-> <<0, 0, 0>>, of |-> FALSE]

\* generate_map_chunk not called
NoGen ==
    [pc |-> "idle", b |-> NoBounds, x |-> 0, y |-> 0, z |-> 0, z_depth |-> 0,
     z_map |-> <<>>, map |-> EmptyMap, cells |-> <<>>, inserted |-> <<>>]

\* draw_map not yet run on the camera as it is
NoFrame == [drawn |-> FALSE, x_lo |-> 0, x_hi |-> 0, y_lo |-> 0, y_hi |-> 0, z |-> 0]

\* no camera operation yet
NoLog == [op |-> "none", x |-> FromInt(0), y |-> FromInt(0), z |-> 0, n |-> 0, frame |-> NoFrame]

\* what a call returned, without the store
CallOf(r) ==
    [status |-> r.status, x |-> r.x, y |-> r.y, z |-> r.z, tile |-> r.tile,
     generated |-> r.generated, overflow |-> r.overflow, key |-> r.key,
     bounds |-> r.bounds]

\* one more run of generate_map_chunk for the key (the ghost saturates at 2)
Bump(cnt, key) ==
    IF key \in DOMAIN cnt THEN Put(cnt, key, IF cnt[key] < 2 THEN cnt[key] + 1 ELSE 2)
    ELSE Put(cnt, key, 1)

Init ==
    /\ map = EmptyMap
    /\ gen_count = <<>>
    /\ visited = {}
    /\ ret = NoCall
    /\ pin = NoPin
    /\ mapB = EmptyMap
    /\ retB = NoCall
    /\ random_seed \in Seeds
    /\ overflow_checks \in BOOLEAN
    /\ probe = NoProbe
    /\ chunk_gen = NoGen
    /\ camera = NewCamera
    /\ cam_log = NoLog

\* get_tile(x, y, z) on the store; a panic ends the program.  remember: the
\* ghost pin keeps this call.
GetTile(x, y, z, remember) ==
    /\ ret.status # "panic"
    /\ remember => pin.call.status = "none"
    /\ \E r \in {get_tile(map, x, y, z, random_seed, overflow_checks)} :
           /\ map' = r.map
           /\ ret' = CallOf(r)
           /\ gen_count' = IF r.generated THEN Bump(gen_count, r.key) ELSE gen_count
           /\ visited' = visited \cup {ChunkOf(x, y, z)}
           /\ pin' = IF remember THEN [call |-> CallOf(r), fresh |-> TRUE]
                     ELSE [pin EXCEPT !.fresh = FALSE]
    /\ UNCHANGED <<mapB, retB, random_seed, overflow_checks, probe, chunk_gen, camera, cam_log>>

\* get_tile(x, y, z) on the second store
GetTileB(x, y, z) ==
    /\ retB.status # "panic"
    /\ \E r \in {get_tile(mapB, x, y, z, random_seed, overflow_checks)} :
           /\ mapB' = r.map
           /\ retB' = CallOf(r)
    /\ UNCHANGED <<map, gen_count, visited, ret, pin, random_seed, overflow_checks, probe, chunk_gen, camera, cam_log>>

\* round_to_boundries(n, m), applied once to the chosen arguments
ProbeRound(n, m) ==
    /\ \E r \in {round_to_boundries(n, m)} :
           probe' = [op |-> "round", x |-> n, y |-> 0, z |-> 0, m |-> m,
                     res |-> [NoBounds EXCEPT !.x_min = r.min, !.x_max = r.max],
                     key |-> <<0, 0, 0>>, of |-> r.of]
    /\ UNCHANGED <<map, gen_count, visited, ret, pin, mapB, retB, random_seed, overflow_checks, chunk_gen, camera, cam_log>>

\* get_chunck_boundries(x, y, z, m) and the centers get_tile computes from
\* it, applied once to the chosen point
ProbeBounds(x, y, z, m) ==
    /\ \E b \in {get_chunck_boundries(x, y, z, m)} :
           probe' = [op |-> "bounds", x |-> x, y |-> y, z |-> z, m |-> m,
                     res |-> [x_min |-> b.x_min, x_max |-> b.x_max,
                              y_min |-> b.y_min, y_max |-> b.y_max,
                              z_min |-> b.z_min, z_max |-> b.z_max],
                     key |-> ChunkKey(b, m).key, of |-> b.of \/ ChunkKey(b, m).of]
    /\ UNCHANGED <<map, gen_count, visited, ret, pin, mapB, retB, random_seed, overflow_checks, chunk_gen, camera, cam_log>>

\* the (min, max) given to the stone ramp: the generator's [0.0, 0.5], and
\* two more whose width is a multiple of 7, so that step is exact
StoneRanges == {<<0, (5 * Unit) \div 10>>, <<(4 * Unit) \div 10, Unit>>, <<0, Unit>>}

\* the (min, max) given to the floor ramp: the generator's [0.4, 1.0], and
\* one more whose width is a multiple of 8
FloorRanges == {<<(4 * Unit) \div 10, Unit>>, <<0, Unit>>}

\* get_stone_color(val, min, max), applied once
ProbeStone(val, min, max) ==
    /\ probe' = [op |-> "stone", val |-> val, min |-> min, max |-> max,
                 color |-> get_stone_color(val, min, max)]
    /\ UNCHANGED <<map, gen_count, visited, ret, pin, mapB, retB, random_seed, overflow_checks, chunk_gen, camera, cam_log>>

\* get_floor_color(val, min, max), applied once
ProbeFloor(val, min, max) ==
    /\ probe' = [op |-> "floor", val |-> val, min |-> min, max |-> max,
                 color |-> get_floor_color(val, min, max)]
    /\ UNCHANGED <<map, gen_count, visited, ret, pin, mapB, retB, random_seed, overflow_checks, chunk_gen, camera, cam_log>>

\* the body of the innermost loop of generate_map_chunk, run once for the
\* cell (x, y, z) with the sample val: the tile after the threshold test
\* (staged) and the tile pushed
ProbeTile(x, y, z, val) ==
    /\ probe' = [op |-> "tile", val |-> val, staged |-> Classified(val),
                 tile |-> TileOf(x, y, z, val)]
    /\ UNCHANGED <<map, gen_count, visited, ret, pin, mapB, retB, random_seed, overflow_checks, chunk_gen, camera, cam_log>>

\* the chunks generate_map_chunk is run for, all inside the world range
GenChunks ==
    {<<i, j, k>> : i \in 0 .. 1, j \in 0 .. 1, k \in 0 .. 2} \cup {<<HighChunkX, 0, 0>>}

\* lines 116-120: the loop variables on entry to the slice of depth z; the
\* slice is finished at once when the x or the y range is empty
EnterSlice(g, z) ==
    [g EXCEPT !.z = z, !.z_depth = MulU(z, level_thickness).v,
              !.z_map = <<>>, !.cells = <<>>,
              !.y = g.b.y_min, !.x = g.b.x_min,
              !.pc = IF Range(g.b.y_min, g.b.y_max) = {} \/ Range(g.b.x_min, g.b.x_max) = {}
                     THEN "insert" ELSE "tiles"]

\* the loops with y inside x: the cell after (x, y) is (x, y + 1)
AdvanceColumnMajor(g) ==
    IF g.y + 1 < g.b.y_max THEN [g EXCEPT !.y = g.y + 1]
    ELSE IF g.x + 1 < g.b.x_max THEN [g EXCEPT !.y = g.b.y_min, !.x = g.x + 1]
    ELSE [g EXCEPT !.pc = "insert"]

\* lines 119-120: x is the inner loop and y the outer one
Advance(g) ==
    IF g.x + 1 < g.b.x_max THEN [g EXCEPT !.x = g.x + 1]
    ELSE IF g.y + 1 < g.b.y_max THEN [g EXCEPT !.x = g.b.x_min, !.y = g.y + 1]
    ELSE [g EXCEPT !.pc = "insert"]

\* generate_map_chunk is called with the bounds of the chunk c and an empty
\* map; (z_min..z_max).rev() starts at z_max - 1
GenCall(c) ==
    /\ chunk_gen.pc = "idle"
    /\ \E b \in {BoundsOf(get_chunck_boundries(c[1] * chunk_size, c[2] * chunk_size,
                                                c[3] * chunk_size, chunk_size))} :
           chunk_gen' = IF Range(b.z_min, b.z_max) = {}
                            THEN [chunk_gen EXCEPT !.pc = "done", !.b = b]
                        ELSE EnterSlice([chunk_gen EXCEPT !.b = b], b.z_max - 1)
    /\ UNCHANGED <<map, gen_count, visited, ret, pin, mapB, retB, random_seed, overflow_checks, probe, camera, cam_log>>

\* lines 121-144: one pass of the innermost loop, z_map.push(tile)
GenPush ==
    /\ chunk_gen.pc = "tiles"
    /\ \E tile \in {MakeTile(chunk_gen.x, chunk_gen.y, chunk_gen.z,
                              chunk_gen.z_depth, random_seed)} :
           chunk_gen' = Advance([chunk_gen EXCEPT
                            !.z_map = Append(chunk_gen.z_map, tile),
                            !.cells = Append(chunk_gen.cells, <<chunk_gen.x, chunk_gen.y>>)])
    /\ UNCHANGED <<map, gen_count, visited, ret, pin, mapB, retB, random_seed, overflow_checks, probe, camera, cam_log>>

\* line 147: map.insert(z % chunk_size, z_map); then the next lower depth,
\* or the return of the map after z_min
GenInsert ==
    /\ chunk_gen.pc = "insert"
    /\ \E g \in {[chunk_gen EXCEPT
                      !.map = Put(chunk_gen.map, chunk_gen.z % chunk_size, chunk_gen.z_map),
                      !.inserted = Append(chunk_gen.inserted,
                                          [key |-> chunk_gen.z % chunk_size, z |-> chunk_gen.z,
                                           cells |-> chunk_gen.cells])]} :
           chunk_gen' = IF g.z > g.b.z_min THEN EnterSlice(g, g.z - 1)
                  ELSE [g EXCEPT !.pc = "done"]
    /\ UNCHANGED <<map, gen_count, visited, ret, pin, mapB, retB, random_seed, overflow_checks, probe, camera, cam_log>>

\* one run of generate_map_chunk
NextGen ==
    \/ \E c \in GenChunks : GenCall(c)
    \/ GenPush
    \/ GenInsert

SpecGen == Init /\ [][NextGen]_vars

\* One camera operation op, leaving the camera as cam; x, y, z are the
\* arguments of go_to.  The ghost counts the operations of the run.
CameraOp(op, x, y, z, cam) ==
    /\ cam_log.n < MaxOps
    /\ camera' = cam
    /\ cam_log' = [op |-> op, x |-> x, y |-> y, z |-> z, n |-> cam_log.n + 1, frame |-> NoFrame]
    /\ UNCHANGED <<map, gen_count, visited, ret, pin, mapB, retB, random_seed,
                   overflow_checks, probe, chunk_gen>>

MoveLeft == CameraOp("move_left", FromInt(0), FromInt(0), 0, move_left(camera))

MoveRight == CameraOp("move_right", FromInt(0), FromInt(0), 0, move_right(camera))

MoveUp == CameraOp("move_up", FromInt(0), FromInt(0), 0, move_up(camera))

MoveDown == CameraOp("move_down", FromInt(0), FromInt(0), 0, move_down(camera))

Elevate == CameraOp("elevate", FromInt(0), FromInt(0), 0, elevate(camera))

Lower == CameraOp("lower", FromInt(0), FromInt(0), 0, lower(camera))

ZoomIn == CameraOp("zoom_in", FromInt(0), FromInt(0), 0, zoom_in(camera))

ZoomOut == CameraOp("zoom_out", FromInt(0), FromInt(0), 0, zoom_out(camera))

GoTo(x, y, z) == CameraOp("go_to", x, y, z, go_to(camera, x, y, z))

\* The arguments go_to is called with: the six calls of Game::update (ctrl
\* with left, right, up, down and the two brackets), and one call beyond
\* the maximum on each axis.
GoToArgs(cam) ==
    {<<FromInt(0), cam.viewport.y, cam.z_position>>,
     <<FromU32(cam.max_x), cam.viewport.y, cam.z_position>>,
     <<cam.viewport.x, FromInt(0), cam.z_position>>,
     <<cam.viewport.x, cam.viewport.y, cam.z_position>>,
     <<cam.viewport.x, cam.viewport.y, cam.max_z>>,
     <<cam.viewport.x, cam.viewport.y, 0>>,
     <<FAdd(FromU32(cam.max_x), FromInt(2)), cam.viewport.y, cam.z_position>>,
     <<cam.viewport.x, FAdd(FromU32(cam.max_y), FromInt(2)), cam.z_position>>,
     <<cam.viewport.x, cam.viewport.y, cam.max_z + 1>>}

\* Game::draw_map on the camera as it is: the ghost keeps the coordinates it
\* hands to get_tile
DrawMap ==
    /\ ~cam_log.frame.drawn
    /\ cam_log' = [cam_log EXCEPT !.frame = draw_map(camera)]
    /\ UNCHANGED <<map, gen_count, visited, ret, pin, mapB, retB, random_seed,
                   overflow_checks, probe, chunk_gen, camera>>

\* the camera driven by the keys of Game::update, drawn between operations
NextCamera ==
    \/ MoveLeft
    \/ MoveRight
    \/ MoveUp
    \/ MoveDown
    \/ Elevate
    \/ Lower
    \/ ZoomIn
    \/ ZoomOut
    \/ \E a \in GoToArgs(camera) : GoTo(a[1], a[2], a[3])
    \/ DrawMap

SpecCamera == Init /\ [][NextCamera]_vars

\* chunk_size as GameMap::new sets it, and the chunk counts it computes
new_chunk_size == 64

NewMaxChuncks ==
    [x |-> planet_circumference \div new_chunk_size,
     y |-> planet_circumference \div new_chunk_size,
     z |-> (planet_crust_thickness \div level_thickness) \div new_chunk_size]

\* coordinates of the program's world range: the first two chunks, and the
\* last cells below limit
EdgeCoords(limit) ==
    {v \in {0, 1, new_chunk_size - 2, new_chunk_size - 1, new_chunk_size,
            2 * new_chunk_size - 1, limit - new_chunk_size - 1,
            limit - new_chunk_size, limit - 2, limit - 1} : v < limit}

\* The unsigned arithmetic of one get_tile(x, y, z) with the chunk size of
\* GameMap::new: which of the computations left the word (lines 160-162
\* and 179-180, 53-56, 118 for every z of the chunk, 85-89), and the
\* product max_chuncks * chunk_size of Game::new.
ProbeWidth(x, y, z) ==
    /\ \E b \in {get_chunck_boundries(x, y, z, new_chunk_size)} :
           probe' = [op |-> "width", x |-> x, y |-> y, z |-> z,
                     res |-> BoundsOf(b),
                     of_bounds |-> b.of,
                     of_center |-> ChunkKey(b, new_chunk_size).of,
                     of_depth  |-> \E d \in Range(b.z_min, b.z_max) : MulU(d, level_thickness).of,
                     of_index  |-> LocalIndex(x % new_chunk_size, y % new_chunk_size,
                                              new_chunk_size).of,
                     of_world  |-> \/ MulU(NewMaxChuncks.x, new_chunk_size).of
                                   \/ MulU(NewMaxChuncks.y, new_chunk_size).of
                                   \/ MulU(NewMaxChuncks.z, new_chunk_size).of]
    /\ UNCHANGED <<map, gen_count, visited, ret, pin, mapB, retB, random_seed,
                   overflow_checks, chunk_gen, camera, cam_log>>

\* the arithmetic of get_tile with the program's parameters, applied once to
\* a coordinate of the program's world range
NextWidth ==
    /\ probe.op = "none"
    /\ \E x \in EdgeCoords(NewMaxChuncks.x * new_chunk_size) :
       \E y \in EdgeCoords(NewMaxChuncks.y * new_chunk_size) :
       \E z \in EdgeCoords(NewMaxChuncks.z * new_chunk_size) : ProbeWidth(x, y, z)

SpecWidth == Init /\ [][NextWidth]_vars

\* the store queried inside the world range
Next == \E c \in Coords : GetTile(c[1], c[2], c[3], FALSE)

Spec == Init /\ [][Next]_vars

\* the store queried inside the world range, one call remembered
NextIdem == \E c \in FewCoords : \E remember \in BOOLEAN : GetTile(c[1], c[2], c[3], remember)

SpecIdem == Init /\ [][NextIdem]_vars

\* two stores with the same parameters and seed, queried independently
NextPair ==
    \/ \E c \in PairCoords : GetTile(c[1], c[2], c[3], FALSE)
    \/ \E c \in PairCoords : GetTileB(c[1], c[2], c[3])

SpecPair == Init /\ [][NextPair]_vars

\* the store queried over the whole unsigned range
NextWide == \E c \in WideCoords : GetTile(c[1], c[2], c[3], FALSE)

SpecWide == Init /\ [][NextWide]_vars

\* the pure coordinate functions, applied once to arguments drawn from the
\* bounded sets; the point given to get_chunck_boundries has the probed
\* coordinate on one axis
NextProbe ==
    /\ probe.op = "none"
    /\ \/ \E n \in 0 .. MaxN : \E m \in ProbeSizes : ProbeRound(n, m)
       \/ \E v \in 0 .. MaxN : \E w \in {0, 63, 64} : \E m \in ProbeSizes :
             \/ ProbeBounds(v, w, w, m)
             \/ ProbeBounds(w, v, w, m)
             \/ ProbeBounds(w, w, v, m)

SpecProbe == Init /\ [][NextProbe]_vars

\* the store with one call remembered, and the chunk key of the program's
\* chunk size computed once for a point around (100, 100, 10)
NextKey ==
    \/ NextIdem
    \/ /\ probe.op = "none"
       /\ \E c \in {<<100, 100, 10>>, <<63, 64, 127>>} : ProbeBounds(c[1], c[2], c[3], 64)

SpecKey == Init /\ [][NextKey]_vars

\* the classification of one sample and the two ramps, applied once to
\* arguments drawn from the bounded sets
NextShade ==
    /\ probe.op = "none"
    /\ \/ \E val \in (0 - Margin) .. MaxSample : \E r \in StoneRanges : ProbeStone(val, r[1], r[2])
       \/ \E val \in (0 - Margin) .. MaxSample : \E r \in FloorRanges : ProbeFloor(val, r[1], r[2])
       \/ \E val \in 0 .. MaxSample : ProbeTile(0, 0, 0, val)

SpecShade == Init /\ [][NextShade]_vars

\* the store queried inside the world range, and the body of the generator's
\* loop run once on a sample drawn from the bounded set
NextTiles ==
    \/ \E c \in PairCoords : GetTile(c[1], c[2], c[3], FALSE)
    \/ /\ probe.op = "none"
       /\ \E val \in 0 .. MaxSample : ProbeTile(1, 1, 1, val)

SpecTiles == Init /\ [][NextTiles]_vars

----------------------------------------------------------------------------
(* Properties *)

\* the chunk keys in the store: one triple per chunk of the third level
KeysOf(m) ==
    UNION {UNION {{<<cx, cy, cz>> : cz \in DOMAIN m[cx][cy]} : cy \in DOMAIN m[cx]} :
              cx \in DOMAIN m}

\* number of chunks in the store, counted through the three nesting levels
ChunkCount(m) == Cardinality(KeysOf(m))

\* C1: for every cell of the world range, after any earlier calls, get_tile
\* returns the tile of exactly that cell: its depth is z and its position
\* is (x, y).
C1_ReturnsOwnCell ==
    ret.status # "none" =>
        /\ ret.status = "ok"
        /\ ret.tile.depth = ret.z
        /\ ret.tile.pos = <<ret.x, ret.y>>

\* What the code does for C1: the slice and the index address the tile that
\* generate_map_chunk made for the cell, whose position is the pair of f32
\* values nearest to x and y.
C1_Addressing ==
    ret.status # "none" =>
        /\ ret.status = "ok"
        /\ ret.tile = MakeTile(ret.x, ret.y, ret.z, ret.z * level_thickness, random_seed)
        /\ ret.tile.depth = ret.z
        /\ ret.tile.pos = <<AsF32(ret.x), AsF32(ret.y)>>

\* C2: get_tile is idempotent: a later call with the coordinates of a
\* remembered earlier call, whatever calls came in between, returns the same
\* tile and does not run generate_map_chunk.
C2_Idempotent ==
    (/\ pin.call.status = "ok"
     /\ ~pin.fresh
     /\ <<ret.x, ret.y, ret.z>> = <<pin.call.x, pin.call.y, pin.call.z>>)
    => (/\ ret.status = "ok"
        /\ ret.tile = pin.call.tile
        /\ ~ret.generated)

\* a later call repeated the remembered one after another chunk was generated
C2_Witness ==
    /\ pin.call.status = "ok"
    /\ ~pin.fresh
    /\ <<ret.x, ret.y, ret.z>> = <<pin.call.x, pin.call.y, pin.call.z>>
    /\ Cardinality(DOMAIN gen_count) >= 2

\* C3: generate_map_chunk runs at most once per chunk key, queries in the
\* same chunk interval trigger at most one generation of that chunk, and
\* the store holds one chunk per key.
C3_GenerateOnce ==
    /\ \A k \in DOMAIN gen_count : gen_count[k] = 1
    /\ Cardinality(DOMAIN gen_count) <= Cardinality(visited)
    /\ DOMAIN gen_count = KeysOf(map)

\* two chunks were generated and the last call hit a stored chunk
C3_Witness ==
    /\ Cardinality(DOMAIN gen_count) >= 2
    /\ ret.status = "ok"
    /\ ~ret.generated

\* C4: after calls whose coordinates fall in K distinct chunks the store
\* holds exactly K chunks.
C4_GrowthBound == ChunkCount(map) = Cardinality(visited)

\* three chunks visited, the last call a repetition
C4_Witness ==
    /\ Cardinality(visited) >= 3
    /\ ret.status = "ok"
    /\ ~ret.generated

\* every chunk of m is in n, unchanged, under the same keys
Preserved(m, n) ==
    \A cx \in DOMAIN m :
        /\ cx \in DOMAIN n
        /\ \A cy \in DOMAIN m[cx] :
              /\ cy \in DOMAIN n[cx]
              /\ \A cz \in DOMAIN m[cx][cy] :
                    /\ cz \in DOMAIN n[cx][cy]
                    /\ n[cx][cy][cz] = m[cx][cy][cz]

\* C5: the store is append-only: a get_tile call leaves every stored chunk
\* and every intermediate map in place and unchanged.
C5_AppendOnly == [][Preserved(map, map')]_vars

\* a call added a chunk to a store that already held two
C5_Witness ==
    /\ ChunkCount(map) >= 3
    /\ ret.status = "ok"
    /\ ret.generated

\* C6: the tile returned for a coordinate does not depend on the calls made
\* before: two stores with the same parameters and seed return the same tile
\* for the same coordinates.
C6_HistoryIndependent ==
    (/\ ret.status = "ok"
     /\ retB.status = "ok"
     /\ <<ret.x, ret.y, ret.z>> = <<retB.x, retB.y, retB.z>>)
    => ret.tile = retB.tile

\* both stores answered the same coordinates after different histories
C6_Witness ==
    /\ ret.status = "ok"
    /\ retB.status = "ok"
    /\ <<ret.x, ret.y, ret.z>> = <<retB.x, retB.y, retB.z>>
    /\ KeysOf(map) # KeysOf(mapB)
    /\ ret.generated # retB.generated

\* min is a multiple of m, max = min + m and min <= v < max
HalfOpen(v, m, min, max) ==
    /\ min % m = 0
    /\ max = min + m
    /\ min <= v
    /\ v < max

\* C7: get_chunck_boundries returns on each axis the half-open interval
\* [min, max) of width m, aligned to a multiple of m, that contains the
\* coordinate; a multiple of m belongs to the chunk that starts at it.
C7_HalfOpenBounds ==
    probe.op = "bounds" =>
        /\ ~probe.of
        /\ HalfOpen(probe.x, probe.m, probe.res.x_min, probe.res.x_max)
        /\ HalfOpen(probe.y, probe.m, probe.res.y_min, probe.res.y_max)
        /\ HalfOpen(probe.z, probe.m, probe.res.z_min, probe.res.z_max)
        /\ (probe.m = 64 /\ probe.x = 64) => (probe.res.x_min = 64 /\ probe.res.x_max = 128)
        /\ (probe.m = 64 /\ probe.x = 63) => (probe.res.x_min = 0 /\ probe.res.x_max = 64)

\* raw 64 with chunk size 64 on y, raw 63 on x
C7_Witness ==
    /\ probe.op = "bounds"
    /\ probe.m = 64
    /\ probe.y = 64
    /\ probe.x = 63
    /\ probe.res.y_min = 64
    /\ probe.res.x_max = 64

\* the table of the tests of round_to_boundries, m = 64
RoundTable ==
    [n \in {0, 1, 63, 64} |-> <<0, 64>>] @@ [n \in {100, 128} |-> <<64, 128>>]
        @@ [n \in {129, 175, 192} |-> <<128, 192>>]

\* C8: round_to_boundries(0, m) = (0, m); for n >= 1 it returns the two
\* consecutive multiples of m with min < n <= max, min = floor((n-1)/m) * m;
\* with m = 64 it gives the table of the tests.
C8_RoundToBoundries ==
    probe.op = "round" =>
        LET n   == probe.x
            m   == probe.m
            min == probe.res.x_min
            max == probe.res.x_max
        IN  /\ ~probe.of
            /\ n = 0 => (min = 0 /\ max = m)
            /\ n >= 1 => /\ min = ((n - 1) \div m) * m
                         /\ max = min + m
                         /\ min < n
                         /\ n <= max
            /\ (m = 64 /\ n \in DOMAIN RoundTable) => <<min, max>> = RoundTable[n]

\* n is a multiple of m: it is the upper bound
C8_Witness ==
    /\ probe.op = "round"
    /\ probe.m = 64
    /\ probe.x = 128
    /\ probe.res.x_max = 128

\* C9: get_tile is total over the unsigned range: every call returns a
\* tile, with no arithmetic overflow and no failed lookup.
C9_Total ==
    ret.status # "none" =>
        /\ ret.status = "ok"
        /\ ~ret.overflow

\* same chunk interval on every axis
SameInterval(a, b) == ChunkOf(a.x, a.y, a.z) = ChunkOf(b.x, b.y, b.z)

\* C10: the chunk key is min + chunk_size/2 per axis of the computed bounds;
\* two calls get the same key exactly when their coordinates lie in the same
\* chunk interval on every axis; the first call for a chunk generates one
\* chunk and returns a tile of depth z.  For chunk size 64 the point
\* (100, 100, 10) has bounds x [64,128), y [64,128), z [0,64) and key
\* (96, 96, 32).
C10_ChunkKey ==
    /\ ret.status # "none" =>
          /\ ret.status = "ok"
          /\ ret.key = <<ret.bounds.x_min + chunk_size \div 2,
                         ret.bounds.y_min + chunk_size \div 2,
                         ret.bounds.z_min + chunk_size \div 2>>
          /\ ret.key \in KeysOf(map)
          /\ ret.generated => gen_count[ret.key] = 1
          /\ ret.tile.depth = ret.z
    /\ (ret.status = "ok" /\ pin.call.status = "ok") =>
          (ret.key = pin.call.key <=> SameInterval(ret, pin.call))
    /\ ChunkCount(map) = Cardinality(DOMAIN gen_count)
    /\ (probe.op = "bounds" /\ <<probe.x, probe.y, probe.z>> = <<100, 100, 10>>) =>
          /\ probe.res = [x_min |-> 64, x_max |-> 128, y_min |-> 64, y_max |-> 128,
                          z_min |-> 0, z_max |-> 64]
          /\ probe.key = <<96, 96, 32>>

\* the key of (100, 100, 10) was computed, and two calls in different chunks
\* of the store got different keys
C10_Witness ==
    /\ probe.op = "bounds"
    /\ probe.key = <<96, 96, 32>>
    /\ ret.status = "ok"
    /\ pin.call.status = "ok"
    /\ ret.key # pin.call.key
    /\ ret.generated

\* a chunk as generate_map_chunk returns it: one slice per local depth
\* index, every slice with chunk_size * chunk_size tiles
ChunkComplete(chunk) ==
    /\ DOMAIN chunk = 0 .. (chunk_size - 1)
    /\ \A k \in DOMAIN chunk : Len(chunk[k]) = chunk_size * chunk_size

\* the slice lookup and the index of get_tile succeed for every local
\* coordinate of the chunk
Addressable(chunk) ==
    \A lx \in 0 .. (chunk_size - 1), ly \in 0 .. (chunk_size - 1), lz \in 0 .. (chunk_size - 1) :
        /\ lz \in DOMAIN chunk
        /\ ~LocalIndex(lx, ly, chunk_size).of
        /\ LocalIndex(lx, ly, chunk_size).v < Len(chunk[lz])

\* C11: between get_tile calls every chunk of the store has exactly
\* chunk_size slices, keyed 0 .. chunk_size - 1, each of chunk_size *
\* chunk_size tiles, so the slice lookup and the index of get_tile succeed
\* for every coordinate of the chunk and no call fails.
C11_AllOrNothing ==
    /\ \A k \in KeysOf(map) :
          /\ ChunkComplete(map[k[1]][k[2]][k[3]])
          /\ Addressable(map[k[1]][k[2]][k[3]])
    /\ ret.status # "none" => ret.status = "ok"

\* the store holds three chunks and the last call read a slice of a chunk
\* generated by an earlier call
C11_Witness ==
    /\ ChunkCount(map) >= 3
    /\ ret.status = "ok"
    /\ ~ret.generated
    /\ ChunkComplete(map[ret.key[1]][ret.key[2]][ret.key[3]])

\* the band of val when [min, max] is cut into n equal parts: floor of
\* n * (val - min) / (max - min)
BandIndex(val, min, max, n) == (n * (val - min)) \div (max - min)

\* the stone ramp as a table: band 0 Void, band k Stone<k>, the rest Stone6
StoneTable == <<"Void", "Stone1", "Stone2", "Stone3", "Stone4", "Stone5">>

StoneBand(val, min, max) ==
    IF val >= min /\ BandIndex(val, min, max, 7) < 6
        THEN StoneTable[BandIndex(val, min, max, 7) + 1]
    ELSE "Stone6"

\* the floor ramp as a table over 8 bands
FloorTable == <<"Stone6", "Void", "Stone5", "Stone4", "Stone3", "Stone2", "Void", "Void">>

FloorBand(val, min, max) ==
    IF val >= min /\ BandIndex(val, min, max, 8) < 8
        THEN FloorTable[BandIndex(val, min, max, 8) + 1]
    ELSE "Void"

\* C12: after the threshold test a sample below 0.6 is rock, glyph "#", with
\* the color of the stone ramp over [0.0, 0.5]; a sample of 0.6 or more is
\* floor, glyph ".", with the color of the floor ramp over [0.4, 1.0].
C12_Classification ==
    probe.op = "tile" =>
        /\ 10 * probe.val < 6 * Unit =>
              /\ probe.staged.glyph = "#"
              /\ probe.staged.color = StoneBand(probe.val, 0, (5 * Unit) \div 10)
        /\ 10 * probe.val >= 6 * Unit =>
              /\ probe.staged.glyph = "."
              /\ probe.staged.color = FloorBand(probe.val, (4 * Unit) \div 10, Unit)

\* the sample is the threshold itself
C12_Witness ==
    /\ probe.op = "tile"
    /\ 10 * probe.val = 6 * Unit
    /\ probe.staged.glyph = "."

\* C13: a sample classified rock that the stone ramp over [0.0, 0.5] puts in
\* its lowest band (below 0.5 / 7) is pushed as liquid: glyph "~", color
\* Blue.
C13_LiquidOverride ==
    (/\ probe.op = "tile"
     /\ 10 * probe.val < 6 * Unit
     /\ 2 * 7 * probe.val < Unit)
    => (/\ probe.tile.glyph = "~"
        /\ probe.tile.color = "Blue")

\* the largest sample of the lowest band
C13_Witness ==
    /\ probe.op = "tile"
    /\ 2 * 7 * (probe.val + 1) = Unit
    /\ probe.staged = [glyph |-> "#", color |-> "Void"]
    /\ probe.tile.glyph = "~"

\* C14: get_stone_color cuts [min, max] into 7 equal half-open bands: band 0
\* is Void, band k is Stone<k> for k = 1..5, every value at or above the
\* sixth boundary is Stone6, and a value outside [min, max] gets the
\* catch-all Stone6.
C14_StoneRamp ==
    probe.op = "stone" =>
        /\ probe.color \in {"Void", "Stone1", "Stone2", "Stone3", "Stone4", "Stone5", "Stone6"}
        /\ probe.color = StoneBand(probe.val, probe.min, probe.max)
        /\ 7 * (probe.val - probe.min) >= 6 * (probe.max - probe.min) => probe.color = "Stone6"
        /\ probe.val < probe.min => probe.color = "Stone6"

\* a value in band 5 of the generator's ramp
C14_Witness ==
    /\ probe.op = "stone"
    /\ probe.min = 0
    /\ BandIndex(probe.val, probe.min, probe.max, 7) = 5
    /\ probe.color = "Stone5"

\* C15: get_floor_color is the table over 8 equal bands: band 0 Stone6,
\* band 2 Stone5, band 3 Stone4, band 4 Stone3, band 5 Stone2, and Void for
\* band 1, bands 6 and 7 and every value outside [min, max].
C15_FloorRamp ==
    probe.op = "floor" =>
        /\ probe.color \in {"Void", "Stone2", "Stone3", "Stone4", "Stone5", "Stone6"}
        /\ probe.color = FloorBand(probe.val, probe.min, probe.max)
        /\ (probe.val < probe.min \/ probe.val > probe.max) => probe.color = "Void"

\* a value in the skipped band 1
C15_Witness ==
    /\ probe.op = "floor"
    /\ probe.val >= probe.min
    /\ BandIndex(probe.val, probe.min, probe.max, 8) = 1
    /\ probe.color = "Void"

\* cell number t (from 1) of a slice in row-major order, x running fastest
RowMajor(b, t) == <<b.x_min + ((t - 1) % chunk_size), b.y_min + ((t - 1) \div chunk_size)>>

\* C16: generate_map_chunk inserts the slices in strictly descending depth
\* order from z_max - 1 down to z_min; tile number i of a slice is the cell
\* (x_min + i mod chunk_size, y_min + i div chunk_size); a finished slice is
\* inserted under z mod chunk_size and no two slices of a chunk share a key.
C16_SliceOrder ==
    chunk_gen.pc # "idle" =>
        /\ \A i \in 1 .. Len(chunk_gen.inserted) :
              /\ chunk_gen.inserted[i].z = chunk_gen.b.z_max - i
              /\ chunk_gen.inserted[i].key = chunk_gen.inserted[i].z % chunk_size
              /\ Len(chunk_gen.inserted[i].cells) = chunk_size * chunk_size
              /\ \A t \in 1 .. Len(chunk_gen.inserted[i].cells) :
                    chunk_gen.inserted[i].cells[t] = RowMajor(chunk_gen.b, t)
              /\ \A j \in 1 .. Len(chunk_gen.inserted) :
                    i # j => chunk_gen.inserted[i].key # chunk_gen.inserted[j].key
        /\ \A t \in 1 .. Len(chunk_gen.cells) :
              /\ chunk_gen.cells[t] = RowMajor(chunk_gen.b, t)
              /\ chunk_gen.z_map[t].depth = chunk_gen.z
              /\ chunk_gen.z_map[t].pos = <<AsF32(chunk_gen.cells[t][1]), AsF32(chunk_gen.cells[t][2])>>
        /\ chunk_gen.pc = "done" =>
              /\ Len(chunk_gen.inserted) = chunk_size
              /\ chunk_gen.inserted[Len(chunk_gen.inserted)].z = chunk_gen.b.z_min
              /\ DOMAIN chunk_gen.map = 0 .. (chunk_size - 1)
              /\ chunk_gen.map =
                     generate_map_chunk(chunk_gen.b.x_min, chunk_gen.b.x_max,
                                        chunk_gen.b.y_min, chunk_gen.b.y_max,
                                        chunk_gen.b.z_min, chunk_gen.b.z_max,
                                        chunk_size, level_thickness, random_seed).chunk

\* a chunk that does not start at depth 0 was generated to the end
C16_Witness ==
    /\ chunk_gen.pc = "done"
    /\ chunk_gen.b.z_min > 0
    /\ chunk_gen.b.y_min > 0
    /\ Len(chunk_gen.inserted) = chunk_size

\* C17: after any sequence of camera operations from the camera of
\* Game::new, every coordinate draw_map hands to get_tile is strictly below
\* max_chuncks * chunk_size on its axis.
C17_QueriesInRange ==
    (/\ cam_log.frame.drawn
     /\ cam_log.frame.x_lo < cam_log.frame.x_hi
     /\ cam_log.frame.y_lo < cam_log.frame.y_hi)
    => InWorld(cam_log.frame.x_hi - 1, cam_log.frame.y_hi - 1, cam_log.frame.z)

\* C18: with chunk_size 64, level_thickness 30 and the chunk counts 312500,
\* 312500 and 16 of GameMap::new, no unsigned computation of get_tile leaves
\* the word for a coordinate inside the world range: x + 1, n + m - 1 and
\* max - m, min + chunk_size / 2, z * level_thickness for every z of the
\* chunk, chunk_x + chunk_y * chunk_size, and max_chuncks * chunk_size.
C18_NoOverflowInWorld ==
    /\ NewMaxChuncks = [x |-> 312500, y |-> 312500, z |-> 16]
    /\ probe.op = "width" =>
          /\ ~probe.of_bounds
          /\ ~probe.of_center
          /\ ~probe.of_depth
          /\ ~probe.of_index
          /\ ~probe.of_world
          /\ probe.res.x_max <= NewMaxChuncks.x * new_chunk_size
          /\ probe.res.y_max <= NewMaxChuncks.y * new_chunk_size
          /\ probe.res.z_max <= NewMaxChuncks.z * new_chunk_size

\* the last cell of the world range on every axis
C18_Witness ==
    /\ probe.op = "width"
    /\ probe.x = NewMaxChuncks.x * new_chunk_size - 1
    /\ probe.y = NewMaxChuncks.y * new_chunk_size - 1
    /\ probe.z = NewMaxChuncks.z * new_chunk_size - 1
    /\ probe.res.x_max = 20000000
    /\ probe.res.z_max = 1024

\* every tile of every slice of every chunk of the store
StoredTiles(m) ==
    UNION {UNION {{m[k[1]][k[2]][k[3]][d][t] : t \in DOMAIN m[k[1]][k[2]][k[3]][d]} :
                     d \in DOMAIN m[k[1]][k[2]][k[3]]} : k \in KeysOf(m)}

\* liquid and Blue, or rock of a stone color, or floor of a floor color; a
\* sample of 0.85 or more is floor of color Void
WellFormedTile(t) ==
    /\ \/ t.glyph = "~" /\ t.color = "Blue"
       \/ t.glyph = "#" /\ t.color \in {"Stone1", "Stone2", "Stone3", "Stone4", "Stone5", "Stone6"}
       \/ t.glyph = "." /\ t.color \in {"Stone5", "Stone4", "Stone3", "Stone2", "Void"}
    /\ 100 * t.val >= 85 * Unit => (t.glyph = "." /\ t.color = "Void")

\* C19: every tile generate_map_chunk stores is liquid with color Blue, or
\* rock with a color Stone1..Stone6, or floor with a color among Stone5,
\* Stone4, Stone3, Stone2 and Void; no rock is Void, no floor is Stone6, and
\* a floor tile of a sample of 0.85 or more stays floor with color Void.
C19_TileShapes ==
    /\ \A t \in StoredTiles(map) : WellFormedTile(t)
    /\ probe.op = "tile" => WellFormedTile(probe.tile)

\* the store holds rock tiles and floor tiles, one of them of a sample above
\* 0.85 and color Void, and the loop body was run on a sample of the lowest
\* stone band
C19_Witness ==
    /\ probe.op = "tile"
    /\ probe.tile.glyph = "~"
    /\ \E t \in StoredTiles(map) : t.glyph = "#"
    /\ \E t \in StoredTiles(map) :
          100 * t.val >= 85 * Unit /\ t.glyph = "." /\ t.color = "Void"

\* z_position is inside 0 .. max_z, before and after a step
ZInRange == 0 <= camera.z_position /\ camera.z_position <= camera.max_z

\* what a step that is a camera operation does to the camera when the
\* operation is elevate, lower, or a go_to beyond a maximum
ZStep ==
    cam_log'.n = cam_log.n + 1 =>
        /\ cam_log'.op = "elevate" =>
              camera' = IF camera.z_position = 0 THEN camera
                        ELSE [camera EXCEPT !.z_position = camera.z_position - 1]
        /\ cam_log'.op = "lower" =>
              camera' = IF camera.z_position = camera.max_z THEN camera
                        ELSE [camera EXCEPT !.z_position = camera.z_position + 1]
        /\ (/\ cam_log'.op = "go_to"
            /\ \/ FLess(FromU32(camera.max_x), cam_log'.x)
               \/ FLess(FromU32(camera.max_y), cam_log'.y)
               \/ cam_log'.z > camera.max_z)
           => camera' = camera

\* C20: in every state reached by camera operations 0 <= z_position <=
\* max_z; elevate at 0 and lower at max_z leave the camera unchanged and
\* otherwise change z_position by exactly 1 and nothing else; go_to with
\* x > max_x, y > max_y or z > max_z leaves the whole camera unchanged.
C20_ZClamped == [][ZInRange /\ ZInRange' /\ ZStep]_vars

\* lower was applied at the greatest depth
C20_Witness ==
    /\ cam_log.op = "lower"
    /\ cam_log.n >= 2
    /\ camera.z_position = camera.max_z

\* the viewport has the size of ref_camera divided by zoom_factor
SameSize(cam) ==
    /\ cam.viewport.w = FDiv(cam.ref_camera.w.i, cam.zoom_factor)
    /\ cam.viewport.h = FDiv(cam.ref_camera.h.i, cam.zoom_factor)

\* Rectangle::center gives the same point for the viewport and for ref_camera
SameCenter(cam) ==
    /\ Center(cam.viewport.x, cam.viewport.w) = Center(cam.ref_camera.x, cam.ref_camera.w)
    /\ Center(cam.viewport.y, cam.viewport.h) = Center(cam.ref_camera.y, cam.ref_camera.h)

\* the last operation was a go_to whose arguments pass its test
GoToTaken ==
    /\ cam_log.op = "go_to"
    /\ FLeq(cam_log.x, FromU32(camera.max_x))
    /\ FLeq(cam_log.y, FromU32(camera.max_y))
    /\ cam_log.z <= camera.max_z

\* the viewport is centered where a reference rectangle placed at the
\* arguments of the go_to has its center
ViewportAtRequest ==
    /\ Center(camera.viewport.x, camera.viewport.w) = Center(cam_log.x, camera.ref_camera.w)
    /\ Center(camera.viewport.y, camera.viewport.h) = Center(cam_log.y, camera.ref_camera.h)

\* C21: after every camera operation (move_left, move_right, move_up,
\* move_down, go_to, zoom_in, zoom_out, elevate, lower) the viewport draw_map
\* reads has the center of ref_camera and the size of ref_camera divided by
\* zoom_factor, and after a go_to that passed its test the viewport is at the
\* requested position.
C21_ViewportConsistent ==
    cam_log.n > 0 =>
        /\ SameSize(camera)
        /\ SameCenter(camera)
        /\ GoToTaken => ViewportAtRequest

====
